---------------------------- MODULE Spec2Model ----------------------------
(***************************************************************************)
(* particle: a generator of "partial" map types for Go structs.            *)
(*                                                                         *)
(* The module models                                                       *)
(*   - the generator (generator.go): File, Imports, Type, AccessFunc,      *)
(*     WithFunc, fieldNames, determineType, qualify;                       *)
(*   - the command line driver (package main): pre, run, glob, generate,   *)
(*     writeInto;                                                          *)
(*   - the run-time behaviour of the functions the generator emits.        *)
(*                                                                         *)
(* Go strings are TLA+ strings; the i-th byte of s is SubSeq(s, i, i).     *)
(* A TLA+ string literal cannot hold the grave accent (U+0060) that        *)
(* delimits a Go raw string literal, so that one byte is written as the    *)
(* apostrophe: BQ.  Like the grave accent it is neither a blank, a colon,  *)
(* a double quote nor a control character, which is all that               *)
(* reflect.StructTag looks at.                                             *)
(***************************************************************************)
EXTENDS Naturals, Integers, Sequences, FiniteSets

VARIABLES
    cfg,      \* rootCmd: the bound flags
    paths,    \* run: the paths returned by glob
    idx,      \* run: the loop index i (1-based; Go's i + 1)
    pc,       \* position of the driver
    status,   \* outcome of the process: running, ok, error, panic
    g,        \* generate: the Generator (opts and jen.File)
    todo,     \* File: the nodes ast.Inspect has still to visit
    code,     \* run: the text returned by generate for paths[idx]
    stdout,   \* what the process printed
    fs,       \* the files under the output path
    wrote,    \* the successful os.WriteFile calls, in order
    call,     \* a single call of fieldNames, qualify or determineType
    rt        \* a program that uses the generated code

vars == <<cfg, paths, idx, pc, status, g, todo, code, stdout, fs, wrote, call, rt>>

driverVars == <<cfg, paths, idx, pc, status, g, todo, code, stdout, fs, wrote>>

-----------------------------------------------------------------------------
(* Bounds of the model. *)

MaxFiles == 2      \* most paths a glob returns
MaxDepth == 2      \* deepest nesting of a type expression handed to determineType
MaxEntries == 2    \* most key:"value" entries of a struct tag literal

-----------------------------------------------------------------------------
(* Strings. *)

BQ == "'"

Ch(s, i) == SubSeq(s, i, i)

Drop(s, n) == SubSeq(s, n + 1, Len(s))

\* strings.Index(s, c) for a one-byte c: the 0-based index of the first c, or -1.
Index(s, c) ==
    IF \E i \in 1..Len(s) : Ch(s, i) = c
    THEN (CHOOSE i \in 1..Len(s) : Ch(s, i) = c /\ \A j \in 1..(i - 1) : Ch(s, j) # c) - 1
    ELSE -1

LastIndex(s, c) ==
    IF \E i \in 1..Len(s) : Ch(s, i) = c
    THEN (CHOOSE i \in 1..Len(s) : Ch(s, i) = c /\ \A j \in (i + 1)..Len(s) : Ch(s, j) # c) - 1
    ELSE -1

\* strings.Trim(s, c) for a one-byte cutset c.
RECURSIVE TrimLeft(_, _)
TrimLeft(s, c) == IF Len(s) > 0 /\ Ch(s, 1) = c THEN TrimLeft(Drop(s, 1), c) ELSE s

RECURSIVE TrimRight(_, _)
TrimRight(s, c) ==
    IF Len(s) > 0 /\ Ch(s, Len(s)) = c THEN TrimRight(SubSeq(s, 1, Len(s) - 1), c) ELSE s

Trim(s, c) == TrimRight(TrimLeft(s, c), c)

\* strings.Split(s, sep) for a one-byte sep: a tuple of strings, never empty.
RECURSIVE Split(_, _)
Split(s, sep) ==
    LET i == Index(s, sep)
    IN  IF i = -1 THEN <<s>> ELSE <<SubSeq(s, 1, i)>> \o Split(Drop(s, i + 1), sep)

HasSuffix(s, suffix) ==
    Len(s) >= Len(suffix) /\ SubSeq(s, Len(s) - Len(suffix) + 1, Len(s)) = suffix

\* filepath.Base: the last element of the path, trailing slashes removed.
Base(path) ==
    IF path = "" THEN "."
    ELSE LET p == TrimRight(path, "/")
         IN  IF p = "" THEN "/" ELSE Drop(p, LastIndex(p, "/") + 1)

\* filepath.Join of two elements with nothing for Clean to rewrite:
\* empty elements are ignored, the others are joined by a slash.
Join(dir, name) ==
    IF dir = "" THEN name ELSE IF name = "" THEN dir ELSE dir \o "/" \o name

-----------------------------------------------------------------------------
(* reflect.StructTag.Get, as the standard library computes it. *)

NotFound == [ok |-> FALSE, value |-> ""]

RECURSIVE SkipSpace(_)
SkipSpace(tag) == IF Len(tag) > 0 /\ Ch(tag, 1) = " " THEN SkipSpace(Drop(tag, 1)) ELSE tag

\* a byte that may stand in a key: above the blank, no colon, quote or DEL
NameByte(c) == c \notin {" ", ":", "\"", "\t", "\n", "\r", "\f"}

\* the 0-based index of the first byte of tag that ends the key
RECURSIVE NameEnd(_, _)
NameEnd(tag, i) == IF i < Len(tag) /\ NameByte(Ch(tag, i + 1)) THEN NameEnd(tag, i + 1) ELSE i

\* the 0-based index of the quote that closes the value, scanning from i
RECURSIVE QuoteEnd(_, _)
QuoteEnd(tag, i) ==
    IF i < Len(tag) /\ Ch(tag, i + 1) # "\""
    THEN QuoteEnd(tag, IF Ch(tag, i + 1) = "\\" THEN i + 2 ELSE i + 1)
    ELSE i

\* strconv.Unquote of a double-quoted value over the bytes of the model:
\* a backslash escapes a quote or a backslash, any other escape is an error.
RECURSIVE UnquoteBody(_)
UnquoteBody(s) ==
    IF s = "" THEN [ok |-> TRUE, value |-> ""]
    ELSE IF Ch(s, 1) = "\\"
         THEN IF Len(s) >= 2 /\ Ch(s, 2) \in {"\"", "\\"}
              THEN LET r == UnquoteBody(Drop(s, 2))
                   IN  [ok |-> r.ok, value |-> Ch(s, 2) \o r.value]
              ELSE NotFound
         ELSE IF Ch(s, 1) = "\"" THEN NotFound
         ELSE LET r == UnquoteBody(Drop(s, 1))
              IN  [ok |-> r.ok, value |-> Ch(s, 1) \o r.value]

Unquote(q) == UnquoteBody(SubSeq(q, 2, Len(q) - 1))

RECURSIVE Lookup(_, _)
Lookup(tag0, key) ==
    LET tag1 == SkipSpace(tag0)
    IN  IF tag1 = "" THEN NotFound
        ELSE LET i == NameEnd(tag1, 0)
             IN  IF i = 0 \/ i + 1 >= Len(tag1) \/ Ch(tag1, i + 1) # ":" \/ Ch(tag1, i + 2) # "\""
                 THEN NotFound
                 ELSE LET name == SubSeq(tag1, 1, i)
                          tag2 == Drop(tag1, i + 1)
                          j    == QuoteEnd(tag2, 1)
                      IN  IF j >= Len(tag2) THEN NotFound
                          ELSE IF key = name
                               THEN Unquote(SubSeq(tag2, 1, j + 1))
                               ELSE Lookup(Drop(tag2, j + 1), key)

Get(tag, key) == Lookup(tag, key).value

-----------------------------------------------------------------------------
(* go/ast, as far as the generator reads it. *)

NoTag == [some |-> FALSE, value |-> ""]
Tag(lit) == [some |-> TRUE, value |-> lit]       \* ast.Field.Tag.Value: the literal as written

NoName == [some |-> FALSE, name |-> ""]
Alias(n) == [some |-> TRUE, name |-> n]

\* ast.ImportSpec: Name (nil or the alias) and Path.Value (the literal, quotes included)
ImportSpec(name, path) == [name |-> name, path |-> "\"" \o path \o "\""]

Ident(n)        == [kind |-> "Ident", name |-> n]
SelectorExpr(x, sel) == [kind |-> "SelectorExpr", x |-> x, sel |-> sel]
StarExpr(x)     == [kind |-> "StarExpr", x |-> x]
SliceType(elt)  == [kind |-> "ArrayType", len |-> "", elt |-> elt]     \* Len == nil
ArrayType(len, elt) == [kind |-> "ArrayType", len |-> len, elt |-> elt]
MapType(k, v)   == [kind |-> "MapType", key |-> k, value |-> v]
FuncType        == [kind |-> "FuncType"]
ChanType        == [kind |-> "ChanType"]
StructType(fields) == [kind |-> "StructType", fields |-> fields]

\* ast.Field: Names (empty for an embedded field), Type, Tag
Field(names, typ, tag) == [names |-> names, typ |-> typ, tag |-> tag]

-----------------------------------------------------------------------------
(* jen: the code the generator builds. *)

JId(n)        == [j |-> "Id", name |-> n]
JQual(p, n)   == [j |-> "Qual", path |-> p, name |-> n]
JMap(k, v)    == [j |-> "Map", key |-> k, value |-> v]
JIndex(elt)   == [j |-> "Index", elt |-> elt]      \* jen.Index().Add(elt): the slice type []elt
JStar(x)      == [j |-> "Star", x |-> x]           \* jen.Op("*").Add(x)
Panic(msg)    == [j |-> "panic", msg |-> msg]

IsPanic(c) == c.j = "panic"

-----------------------------------------------------------------------------
(* The generator's pure helpers. *)

GeneratorOpts(pkg, structTag, typePrefix) ==
    [Package |-> pkg, StructTag |-> structTag, TypePrefix |-> typePrefix]

fieldNames(opts, field) ==
    LET name == field.names[1]
    IN  IF opts.StructTag # "" /\ field.tag.some
        THEN LET tag == Get(field.tag.value, opts.StructTag)
             IN  IF tag # ""
                 THEN LET i == Index(tag, ",")
                      IN  <<name, IF i # -1 THEN SubSeq(tag, 1, i) ELSE tag>>
                 ELSE <<name, name>>
        ELSE <<name, name>>

\* the first import the loop of qualify accepts, 0 if there is none
RECURSIVE qualifyFrom(_, _, _)
qualifyFrom(pkgName, imports, k) ==
    IF k > Len(imports) THEN 0
    ELSE LET imp   == imports[k]
             path  == Trim(imp.path, "\"")
             split == Split(path, "/")
             last  == split[Len(split)]
         IN  IF last = pkgName \/ (imp.name.some /\ imp.name.name = pkgName)
             THEN k
             ELSE qualifyFrom(pkgName, imports, k + 1)

qualify(expr, imports) ==
    LET k == qualifyFrom(expr.x, imports, 1)
    IN  IF k = 0
        THEN [name |-> "", pkg |-> "", err |-> "could not find import"]
        ELSE [name |-> expr.sel, pkg |-> Trim(imports[k].path, "\""), err |-> ""]

RECURSIVE determineType(_, _)
determineType(typ, imp) ==
    CASE typ.kind = "Ident" -> JId(typ.name)
      [] typ.kind = "SelectorExpr" ->
            LET q == qualify(typ, imp)
            IN  IF q.err # "" THEN Panic("could not qualify type: " \o q.err)
                ELSE JQual(q.pkg, q.name)
      [] typ.kind = "MapType" ->
            LET key == determineType(typ.key, imp)
            IN  IF IsPanic(key) THEN key
                ELSE LET value == determineType(typ.value, imp)
                     IN  IF IsPanic(value) THEN value ELSE JMap(key, value)
      [] typ.kind = "ArrayType" ->
            LET elt == determineType(typ.elt, imp)
            IN  IF IsPanic(elt) THEN elt ELSE JIndex(elt)
      [] typ.kind = "StarExpr" ->
            LET x == determineType(typ.x, imp)
            IN  IF IsPanic(x) THEN x ELSE JStar(x)
      [] OTHER -> Panic("unsupported type " \o typ.kind)

-----------------------------------------------------------------------------
(* Single calls of the pure helpers, the arguments drawn from bounded sets. *)

\* the text of one tag entry: key:"value"
EntryText(e) == e.name \o ":\"" \o e.value \o "\""

RECURSIVE EntriesText(_)
EntriesText(es) ==
    IF Len(es) = 0 THEN ""
    ELSE IF Len(es) = 1 THEN EntryText(es[1])
    ELSE EntryText(es[1]) \o " " \o EntriesText(Tail(es))

\* the text of s inside an interpreted string literal: quotes and backslashes escaped
RECURSIVE Escaped(_)
Escaped(s) ==
    IF s = "" THEN ""
    ELSE (IF Ch(s, 1) \in {"\"", "\\"} THEN "\\" \o Ch(s, 1) ELSE Ch(s, 1)) \o Escaped(Drop(s, 1))

\* the tag literal as the parser hands it over: a raw or an interpreted string literal
TagLiteral(es, form) ==
    IF form = "raw" THEN BQ \o EntriesText(es) \o BQ
    ELSE "\"" \o Escaped(EntriesText(es)) \o "\""

TagKeys == {"particle", "json"}
TagValues == {"", "name", "name,omitempty", ",omitempty"}
TagEntry == [name : TagKeys, value : TagValues]

TagEntries ==
    {es \in UNION {[1..n -> TagEntry] : n \in 0..MaxEntries} :
        \A a, b \in 1..Len(es) : a # b => es[a].name # es[b].name}

FieldNamesCalls ==
    {[fn |-> "fieldNames", structTag |-> t, tagged |-> TRUE, entries |-> es, form |-> f,
      field |-> Field(<<"N">>, Ident("int"), Tag(TagLiteral(es, f))),
      done |-> FALSE, res |-> <<>>] :
        t \in {"", "particle"}, es \in TagEntries, f \in {"raw", "interpreted"}}
    \cup
    {[fn |-> "fieldNames", structTag |-> t, tagged |-> FALSE, entries |-> <<>>, form |-> "raw",
      field |-> Field(<<"N">>, Ident("int"), NoTag),
      done |-> FALSE, res |-> <<>>] : t \in {"", "particle"}}

ImportNames == {NoName, Alias("t"), Alias("x")}
ImportPaths == {"t", "a/t", "x"}
ImportSpecs == {ImportSpec(n, p) : n \in ImportNames, p \in ImportPaths}

QualifyCalls ==
    {[fn |-> "qualify", expr |-> SelectorExpr(x, "T"), imports |-> imps,
      done |-> FALSE, res |-> <<>>] :
        x \in {"t", "x"}, imps \in UNION {[1..n -> ImportSpecs] : n \in 0..2}}

\* the imports of the determineType calls: t resolves, u does not
TypeImports == <<ImportSpec(NoName, "a/t")>>

TypeLeaves ==
    {Ident("int"), SelectorExpr("t", "T"), SelectorExpr("u", "T"), FuncType, ChanType}

RECURSIVE TypeExprs(_)
TypeExprs(d) ==
    IF d = 0 THEN TypeLeaves
    ELSE LET sub == TypeExprs(d - 1)
         IN  sub \cup {StarExpr(x) : x \in sub}
                 \cup {SliceType(x) : x \in sub}
                 \cup {ArrayType("3", x) : x \in sub}
                 \cup {MapType(k, v) : k \in TypeLeaves, v \in sub}

DetermineTypeCalls ==
    {[fn |-> "determineType", typ |-> t, imports |-> TypeImports,
      done |-> FALSE, res |-> <<>>] : t \in TypeExprs(MaxDepth)}

NoCall == [fn |-> "none", done |-> TRUE, res |-> <<>>]

CallFieldNames ==
    /\ call.fn = "fieldNames" /\ ~call.done
    /\ call' = [call EXCEPT !.done = TRUE,
                            !.res = fieldNames(GeneratorOpts("partial", call.structTag, ""), call.field)]
    /\ UNCHANGED <<driverVars, rt>>

CallQualify ==
    /\ call.fn = "qualify" /\ ~call.done
    /\ call' = [call EXCEPT !.done = TRUE, !.res = qualify(call.expr, call.imports)]
    /\ UNCHANGED <<driverVars, rt>>

CallDetermineType ==
    /\ call.fn = "determineType" /\ ~call.done
    /\ call' = [call EXCEPT !.done = TRUE, !.res = determineType(call.typ, call.imports)]
    /\ UNCHANGED <<driverVars, rt>>

-----------------------------------------------------------------------------
(* What the specification says the helpers return. *)

\* the key of a field: the value of its first entry for T cut at the first comma,
\* or its declared name
ClaimedKey(name, entries, tagged, T) ==
    LET hits == {k \in 1..Len(entries) : entries[k].name = T}
    IN  IF T # "" /\ tagged /\ hits # {}
        THEN LET v == entries[CHOOSE k \in hits : \A h \in hits : k <= h].value
                 i == Index(v, ",")
             IN  IF i # -1 THEN SubSeq(v, 1, i) ELSE v
        ELSE name

\* the alias an import is resolved by: its explicit alias, or the last segment of
\* its path only if it has none
ResolutionAlias(imp) ==
    IF imp.name.some THEN imp.name.name
    ELSE LET segs == Split(Trim(imp.path, "\""), "/") IN segs[Len(segs)]

Resolving(alias, imports) == {k \in 1..Len(imports) : ResolutionAlias(imports[k]) = alias}

\* out is the type expression typ, node by node
RECURSIVE Faithful(_, _)
Faithful(typ, out) ==
    CASE typ.kind = "Ident" -> out = JId(typ.name)
      [] typ.kind = "SelectorExpr" -> out.j = "Qual" /\ out.name = typ.sel
      [] typ.kind = "StarExpr" -> out.j = "Star" /\ Faithful(typ.x, out.x)
      [] typ.kind = "ArrayType" -> out.j = "Index" /\ typ.len = "" /\ Faithful(typ.elt, out.elt)
      [] typ.kind = "MapType" ->
            out.j = "Map" /\ Faithful(typ.key, out.key) /\ Faithful(typ.value, out.value)
      [] OTHER -> FALSE

\* typ is built from named, qualified, pointer, sequence and mapping types only
RECURSIVE Supported(_)
Supported(typ) ==
    CASE typ.kind \in {"Ident", "SelectorExpr"} -> TRUE
      [] typ.kind = "StarExpr" -> Supported(typ.x)
      [] typ.kind = "ArrayType" -> Supported(typ.elt)
      [] typ.kind = "MapType" -> Supported(typ.key) /\ Supported(typ.value)
      [] OTHER -> FALSE

\* every qualified type of typ names an import that resolves it
RECURSIVE Resolvable(_, _)
Resolvable(typ, imports) ==
    CASE typ.kind = "SelectorExpr" -> Resolving(typ.x, imports) # {}
      [] typ.kind = "StarExpr" -> Resolvable(typ.x, imports)
      [] typ.kind = "ArrayType" -> Resolvable(typ.elt, imports)
      [] typ.kind = "MapType" -> Resolvable(typ.key, imports) /\ Resolvable(typ.value, imports)
      [] OTHER -> TRUE

\* C2: the key fieldNames returns is the value of the field's entry for the
\* configured tag name, cut at its first comma, wherever the entry stands in the
\* literal and also if its value is empty; without such an entry it is the
\* declared name.  The accessor name is always the declared name.
C2_KeyOfTagEntry ==
    (call.fn = "fieldNames" /\ call.done) =>
        call.res = <<call.field.names[1],
                     ClaimedKey(call.field.names[1], call.entries, call.tagged, call.structTag)>>

\* C3: qualify returns the path of an import whose resolution alias is the
\* package name of the expression, and fails if there is none; an import with an
\* explicit alias is never matched by the last segment of its path.
C3_QualifyByResolutionAlias ==
    (call.fn = "qualify" /\ call.done) =>
        LET hits == Resolving(call.expr.x, call.imports)
        IN  IF hits = {} THEN call.res.err # ""
            ELSE /\ call.res.err = ""
                 /\ call.res.name = call.expr.sel
                 /\ \E k \in hits : call.res.pkg = Trim(call.imports[k].path, "\"")

\* C4: determineType returns a type expression of exactly the structure of its
\* argument, and rejects every type expression that holds an unsupported variant.
C4_TypeShapeFidelity ==
    (call.fn = "determineType" /\ call.done) =>
        /\ (Supported(call.typ) /\ Resolvable(call.typ, call.imports))
              => (~IsPanic(call.res) /\ Faithful(call.typ, call.res))
        /\ ~Supported(call.typ) => IsPanic(call.res)

-----------------------------------------------------------------------------
(* The generator: what it appends to its jen.File. *)

\* the members of a jen.File
Comment(text) == [m |-> "Comment", text |-> text]
LineMember    == [m |-> "Line"]
\* type <name> map[string]any
TypeMember(name) == [m |-> "Type", name |-> name, key |-> JId("string"), value |-> JId("any")]
\* func (p <recv>) <name>(<params>) <results> { <body> }
FuncMember(recv, name, params, results, body) ==
    [m |-> "Func", recv |-> recv, name |-> name, params |-> params, results |-> results,
     body |-> body]
\* a function statement cut short by a panic while its result type was computed
FuncStub(recv, name) == FuncMember(recv, name, <<>>, <<>>, [op |-> "none"])
\* return p[<key>].(<assert>)
ReturnIndexAssert(key, assert) == [op |-> "ReturnIndexAssert", key |-> key, assert |-> assert]
\* p[<key>] = v; return p
AssignIndexReturn(key) == [op |-> "AssignIndexReturn", key |-> key]

NoGen == [made |-> FALSE]

NewGenerator(opts) ==
    [made |-> TRUE, opts |-> opts, package |-> opts.Package,
     header |-> <<"Code generated by particle.", "https://github.com/lukasl-dev/particle">>,
     names |-> <<>>, members |-> <<>>]

\* the result of a generator method: the generator after it, and its panic if any
Ok(gen)         == [g |-> gen, panic |-> ""]
Thrown(gen, msg) == [g |-> gen, panic |-> msg]

Emit(gen, ms) == [gen EXCEPT !.members = @ \o ms]

Generate(gen) ==
    [package |-> gen.package, header |-> gen.header, names |-> gen.names,
     members |-> gen.members]

Import(gen, imp) ==
    IF ~imp.name.some
    THEN [gen EXCEPT !.names = Append(@, [path |-> Trim(imp.path, "\""), name |-> "", alias |-> FALSE])]
    ELSE [gen EXCEPT !.names = Append(@, [path |-> Trim(imp.path, "\""), name |-> imp.name.name,
                                           alias |-> TRUE])]

RECURSIVE Imports(_, _)
Imports(gen, imp) ==
    IF Len(imp) = 0 THEN gen ELSE Imports(Import(gen, Head(imp)), Tail(imp))

Type(gen, typ) ==
    IF typ.typ.kind # "StructType" THEN Thrown(gen, "partial type must be a struct")
    ELSE Ok(Emit(gen, <<Comment(gen.opts.TypePrefix \o typ.name \o " is a partial type."),
                        TypeMember(gen.opts.TypePrefix \o typ.name)>>))

\* AccessFunc once the names and the type of the field are computed
accessFuncOf(gen, recv, fieldName, fieldKey, t) ==
    IF IsPanic(t)
    THEN Thrown(Emit(gen, <<Comment(fieldName \o " returns the value of the '" \o fieldKey \o "' field."),
                            FuncStub(recv, fieldName)>>), t.msg)
    ELSE Ok(Emit(gen, <<Comment(fieldName \o " returns the value of the '" \o fieldKey \o "' field."),
                        FuncMember(recv, fieldName, <<>>, <<t>>, ReturnIndexAssert(fieldKey, t))>>))

accessFuncNamed(gen, typ, field, imp, names) ==
    accessFuncOf(gen, gen.opts.TypePrefix \o typ.name, names[1], names[2],
                 determineType(field.typ, imp))

AccessFunc(gen, typ, field, imp) ==
    IF Len(field.names) = 0 THEN Thrown(gen, "field must have a name")
    ELSE accessFuncNamed(gen, typ, field, imp, fieldNames(gen.opts, field))

\* WithFunc once the names and the type of the field are computed
withFuncOf(gen, recv, fieldName, fieldKey, t) ==
    IF IsPanic(t)
    THEN Thrown(Emit(gen, <<Comment("With" \o fieldName \o " updates p with the given v and returns p again."),
                            FuncStub(recv, "With" \o fieldName)>>), t.msg)
    ELSE Ok(Emit(gen, <<Comment("With" \o fieldName \o " updates p with the given v and returns p again."),
                        FuncMember(recv, "With" \o fieldName, <<t>>, <<JId(recv)>>,
                                   AssignIndexReturn(fieldKey))>>))

withFuncNamed(gen, typ, field, imp, names) ==
    withFuncOf(gen, gen.opts.TypePrefix \o typ.name, names[1], names[2],
               determineType(field.typ, imp))

\* WithFunc, had it taken the declared name of the field for its key
WithFunc_keyFromName(gen, typ, field, imp) ==
    IF Len(field.names) = 0 THEN Thrown(gen, "index out of range")
    ELSE withFuncNamed(gen, typ, field, imp, <<field.names[1], field.names[1]>>)

\* fieldNames indexes field.Names[0]: a field without a name makes it panic
WithFunc(gen, typ, field, imp) ==
    IF Len(field.names) = 0 THEN Thrown(gen, "index out of range")
    ELSE withFuncNamed(gen, typ, field, imp, fieldNames(gen.opts, field))

Line(gen) == Emit(gen, <<LineMember>>)

\* the loop of File over st.Fields.List, from the k-th field on:
\* AccessFunc, Line, WithFunc, Line
RECURSIVE fieldLoop(_, _, _, _)
RECURSIVE afterAccessFunc(_, _, _, _)
RECURSIVE afterWithFunc(_, _, _, _)
fieldLoop(gen, node, k, imp) ==
    IF k > Len(node.typ.fields) THEN Ok(gen)
    ELSE afterAccessFunc(AccessFunc(gen, node, node.typ.fields[k], imp), node, k, imp)

afterAccessFunc(a, node, k, imp) ==
    IF a.panic # "" THEN a
    ELSE afterWithFunc(WithFunc(Line(a.g), node, node.typ.fields[k], imp), node, k, imp)

afterWithFunc(w, node, k, imp) ==
    IF w.panic # "" THEN w ELSE fieldLoop(Line(w.g), node, k + 1, imp)

\* File once Type has run on a struct declaration
afterType(t, node, imp) == IF t.panic # "" THEN t ELSE fieldLoop(t.g, node, 1, imp)

\* the function of File, had it not looked at the type of the declaration
inspect_everyTypeSpec(gen, node, imp) ==
    IF node.kind = "TypeSpec" THEN afterType(Type(gen, node), node, imp) ELSE Ok(gen)

\* the function File hands to ast.Inspect, applied to one node
inspect(gen, node, imp) ==
    IF node.kind = "TypeSpec"
    THEN IF node.typ.kind # "StructType" THEN Ok(gen)
         ELSE afterType(Type(gen, node), node, imp)
    ELSE Ok(gen)

\* the nodes in the order ast.Inspect visits them: each node before its children
RECURSIVE InspectOrder(_)
InspectOrder(nodes) ==
    IF Len(nodes) = 0 THEN <<>>
    ELSE <<Head(nodes)>> \o InspectOrder(Head(nodes).body) \o InspectOrder(Tail(nodes))

-----------------------------------------------------------------------------
(* The source files the driver may find. *)

NoType == [kind |-> "none"]

\* a node ast.Inspect visits: a type declaration (ast.TypeSpec), a function
\* declaration (ast.FuncDecl, its body holding the local declarations) or a
\* variable declaration (ast.ValueSpec)
TypeSpec(name, typ)  == [kind |-> "TypeSpec", name |-> name, typ |-> typ, body |-> <<>>]
FuncDecl(name, body) == [kind |-> "FuncDecl", name |-> name, typ |-> NoType, body |-> body]
ValueSpec(name, typ) == [kind |-> "ValueSpec", name |-> name, typ |-> typ, body |-> <<>>]

\* a file: whether parser.ParseFile accepts it, its imports, its top-level declarations
Source(imports, decls) == [parses |-> TRUE, imports |-> imports, decls |-> decls]
Unparsable == [parses |-> FALSE, imports |-> <<>>, decls |-> <<>>]

RawTag(text) == Tag(BQ \o text \o BQ)

UserGo ==
    Source(<<>>,
      << TypeSpec("ID", Ident("int")),
         FuncDecl("helper", <<>>),
         TypeSpec("User", StructType(<<
            Field(<<"Name">>, Ident("string"), RawTag("json:\"n\" particle:\"name,omitempty\"")),
            Field(<<"Age">>, Ident("int"), NoTag) >>)),
         ValueSpec("anon", StructType(<<Field(<<"Z">>, Ident("int"), NoTag)>>)),
         TypeSpec("Empty", StructType(<<>>)) >>)

EventGo ==
    Source(<<ImportSpec(NoName, "time"), ImportSpec(Alias("x"), "a/t")>>,
      << TypeSpec("Event", StructType(<<
            Field(<<"At">>, SelectorExpr("time", "Time"), NoTag),
            Field(<<"Tags">>, MapType(Ident("string"), SliceType(StarExpr(Ident("int")))), NoTag),
            Field(<<"Ref">>, StarExpr(SelectorExpr("x", "T")), RawTag("particle:\"ref\"")),
            Field(<<"X", "Y">>, Ident("int"), NoTag) >>)) >>)

LocalGo ==
    Source(<<>>,
      << FuncDecl("f", <<TypeSpec("Local", StructType(<<Field(<<"X">>, Ident("int"), NoTag)>>))>>),
         TypeSpec("Top", StructType(<<Field(<<"Y">>, Ident("int"), NoTag)>>)) >>)

EmbedGo ==
    Source(<<>>,
      << TypeSpec("Base", StructType(<<Field(<<"A">>, Ident("int"), NoTag)>>)),
         TypeSpec("Derived", StructType(<<
            Field(<<"B">>, Ident("int"), NoTag),
            Field(<<>>, Ident("Base"), NoTag) >>)) >>)

CallbackGo ==
    Source(<<>>,
      << TypeSpec("Hook", StructType(<<
            Field(<<"Name">>, Ident("string"), NoTag),
            Field(<<"Run">>, FuncType, NoTag) >>)) >>)

UnresolvedGo ==
    Source(<<>>,
      << TypeSpec("Stamp", StructType(<<Field(<<"At">>, SelectorExpr("time", "Time"), NoTag)>>)) >>)

AliasedGo ==
    Source(<<ImportSpec(Alias("x"), "a/time")>>,
      << TypeSpec("Mark", StructType(<<Field(<<"At">>, SelectorExpr("time", "Time"), NoTag)>>)) >>)

SourcePaths ==
    {"a/user.go", "b/user.go", "a/local.go", "a/embed.go", "a/callback.go", "a/unresolved.go",
     "a/aliased.go", "a/broken.go"}

SourceOf(path) ==
    CASE path = "a/user.go" -> UserGo
      [] path = "b/user.go" -> EventGo
      [] path = "a/local.go" -> LocalGo
      [] path = "a/embed.go" -> EmbedGo
      [] path = "a/callback.go" -> CallbackGo
      [] path = "a/unresolved.go" -> UnresolvedGo
      [] path = "a/aliased.go" -> AliasedGo
      [] OTHER -> Unparsable

\* what a glob may return: up to MaxFiles distinct paths, in any order
GlobResults ==
    {ps \in UNION {[1..n -> SourcePaths] : n \in 0..MaxFiles} :
        \A a, b \in 1..Len(ps) : a # b => ps[a] # ps[b]}

-----------------------------------------------------------------------------
(* The driver. *)

\* rootCmd after bind and the parsing of the flags
Flags ==
    [dryRun : BOOLEAN, globs : {<<>>, <<"**/*.go">>}, dir : {"."},
     out : {"", "partial", "partial.go"}, structTag : {"", "particle"},
     typePrefix : {"", "Partial"}, pkg : {"partial"}]

NoCode == [made |-> FALSE]

Absent == [exists |-> FALSE]
Old    == [exists |-> TRUE, old |-> TRUE]                  \* a file older than the run
Written(text) == [exists |-> TRUE, old |-> FALSE, text |-> text]

\* the paths writeInto may touch
DstPaths(out) == {out} \cup {Join(out, Base(p)) : p \in SourcePaths}

\* a file that may be there before the run
Preexisting(out) == IF HasSuffix(out, ".go") THEN out ELSE Join(out, "user.go")

InitDriver ==
    /\ cfg \in Flags
    /\ paths = <<>>
    /\ idx = 0
    /\ pc = "pre"
    /\ status = "running"
    /\ g = NoGen
    /\ todo = <<>>
    /\ code = NoCode
    /\ stdout = <<>>
    /\ fs \in {[p \in DstPaths(cfg.out) |-> IF p \in old THEN Old ELSE Absent] :
                  old \in {{}, {Preexisting(cfg.out)}}}
    /\ wrote = <<>>

Fail(kind) == status' = kind /\ pc' = "done"

\* pre: PreRunE, the validation of the flags
Pre ==
    /\ pc = "pre"
    /\ IF Len(cfg.globs) = 0 \/ (~cfg.dryRun /\ cfg.out = "")
       THEN Fail("error")
       ELSE pc' = "glob" /\ status' = status
    /\ UNCHANGED <<cfg, paths, idx, g, todo, code, stdout, fs, wrote, call, rt>>

\* run, up to its loop: glob
Glob ==
    /\ pc = "glob"
    /\ \/ \E ps \in GlobResults : paths' = ps /\ idx' = 1 /\ pc' = "loop" /\ status' = status
       \/ paths' = paths /\ idx' = idx /\ Fail("error")
    /\ UNCHANGED <<cfg, g, todo, code, stdout, fs, wrote, call, rt>>

\* run: the loop is over
Return ==
    /\ pc = "loop" /\ idx > Len(paths)
    /\ status' = "ok" /\ pc' = "done"
    /\ UNCHANGED <<cfg, paths, idx, g, todo, code, stdout, fs, wrote, call, rt>>

\* generate and run, had run gone on with the next path after a parse failure
GenerateBegin_skipsUnparsable ==
    /\ pc = "loop" /\ idx <= Len(paths)
    /\ LET file == SourceOf(paths[idx])
       IN  IF ~file.parses
           THEN idx' = idx + 1 /\ UNCHANGED <<g, todo, pc, status>>
           ELSE /\ g' = Imports(NewGenerator(GeneratorOpts(cfg.pkg, cfg.structTag, cfg.typePrefix)),
                                file.imports)
                /\ todo' = InspectOrder(file.decls)
                /\ pc' = "inspect" /\ status' = status /\ idx' = idx
    /\ code' = NoCode
    /\ UNCHANGED <<cfg, paths, stdout, fs, wrote, call, rt>>

\* generate: ParseFile, NewGenerator, and File up to ast.Inspect
GenerateBegin ==
    /\ pc = "loop" /\ idx <= Len(paths)
    /\ LET file == SourceOf(paths[idx])
       IN  IF ~file.parses
           THEN Fail("error") /\ UNCHANGED <<g, todo>>
           ELSE /\ g' = Imports(NewGenerator(GeneratorOpts(cfg.pkg, cfg.structTag, cfg.typePrefix)),
                                file.imports)
                /\ todo' = InspectOrder(file.decls)
                /\ pc' = "inspect" /\ status' = status
    /\ code' = NoCode
    /\ UNCHANGED <<cfg, paths, idx, stdout, fs, wrote, call, rt>>

\* File: ast.Inspect calls the function on the next node
Visit ==
    /\ pc = "inspect" /\ Len(todo) > 0
    /\ LET r == inspect(g, Head(todo), SourceOf(paths[idx]).imports)
       IN  /\ g' = r.g
           /\ IF r.panic # ""
              THEN Fail("panic") /\ todo' = todo
              ELSE todo' = Tail(todo) /\ pc' = pc /\ status' = status
    /\ UNCHANGED <<cfg, paths, idx, code, stdout, fs, wrote, call, rt>>

\* generate: File has returned, Generate renders the file
GenerateEnd ==
    /\ pc = "inspect" /\ Len(todo) = 0
    /\ code' = [made |-> TRUE, text |-> Generate(g)]
    /\ pc' = "emit"
    /\ UNCHANGED <<cfg, paths, idx, status, g, todo, stdout, fs, wrote, call, rt>>

\* run: the dry run prints the source path, the code and a separator
DryRun ==
    /\ pc = "emit" /\ cfg.dryRun
    /\ stdout' = stdout \o <<[line |-> "// Source:", path |-> paths[idx]],
                             [line |-> "code", text |-> code.text]>>
                        \o (IF idx # Len(paths) THEN <<[line |-> "---"]>> ELSE <<>>)
    /\ idx' = idx + 1 /\ pc' = "loop"
    /\ UNCHANGED <<cfg, paths, status, g, todo, code, fs, wrote, call, rt>>

\* writeInto, had it written the single output file whether or not it exists
WriteInto_overwrites ==
    /\ pc = "emit" /\ ~cfg.dryRun
    /\ \E failing \in {"none", "MkdirAll", "WriteFile"} :
          IF failing # "none" /\ ~(failing = "MkdirAll" /\ HasSuffix(cfg.out, ".go"))
          THEN Fail("error") /\ UNCHANGED <<fs, wrote, idx>>
          ELSE LET dstPath == IF HasSuffix(cfg.out, ".go") THEN cfg.out
                              ELSE Join(cfg.out, Base(paths[idx]))
               IN  /\ failing = "none"
                   /\ fs' = [fs EXCEPT ![dstPath] = Written(code.text)]
                   /\ wrote' = Append(wrote, [src |-> paths[idx], dst |-> dstPath])
                   /\ idx' = idx + 1 /\ pc' = "loop" /\ status' = status
    /\ UNCHANGED <<cfg, paths, g, todo, code, stdout, call, rt>>

\* run: writeInto and the handling of its error.  A call of os.MkdirAll or
\* os.WriteFile that fails leaves the files as they were.
WriteInto ==
    /\ pc = "emit" /\ ~cfg.dryRun
    /\ \E failing \in {"none", "MkdirAll", "WriteFile"} :
          IF HasSuffix(cfg.out, ".go")
          THEN IF ~fs[cfg.out].exists
               THEN /\ failing # "MkdirAll"
                    /\ IF failing = "WriteFile"
                       THEN Fail("error") /\ UNCHANGED <<fs, wrote, idx>>
                       ELSE /\ fs' = [fs EXCEPT ![cfg.out] = Written(code.text)]
                            /\ wrote' = Append(wrote, [src |-> paths[idx], dst |-> cfg.out])
                            /\ idx' = idx + 1 /\ pc' = "loop" /\ status' = status
               ELSE /\ failing = "none"
                    /\ idx' = idx + 1 /\ pc' = "loop" /\ status' = status
                    /\ UNCHANGED <<fs, wrote>>
          ELSE IF failing # "none"
               THEN Fail("error") /\ UNCHANGED <<fs, wrote, idx>>
               ELSE LET dstPath == Join(cfg.out, Base(paths[idx]))
                    IN  /\ fs' = [fs EXCEPT ![dstPath] = Written(code.text)]
                        /\ wrote' = Append(wrote, [src |-> paths[idx], dst |-> dstPath])
                        /\ idx' = idx + 1 /\ pc' = "loop" /\ status' = status
    /\ UNCHANGED <<cfg, paths, g, todo, code, stdout, call, rt>>

-----------------------------------------------------------------------------
(* A program that uses the generated code: one map instance of a generated *)
(* partial type, reached through the variables p and q (q := p), on which  *)
(* it runs p.With<f>(x).With<g>(y) and then reads both fields through q.   *)

NoRt == [made |-> FALSE]

AccountDecl ==
    TypeSpec("Account", StructType(<<
        Field(<<"ID">>, Ident("int"), NoTag),
        Field(<<"Balance">>, Ident("int"), NoTag) >>))

ProfileDecl ==
    TypeSpec("Profile", StructType(<<
        Field(<<"Name">>, Ident("string"), RawTag("json:\"name\" particle:\"name\"")),
        Field(<<"Alias">>, Ident("string"), RawTag("json:\"alias\" particle:\"name\"")) >>))

ResultDecl ==
    TypeSpec("Result", StructType(<<
        Field(<<"Value">>, Ident("int"), NoTag),
        Field(<<"Err">>, Ident("error"), NoTag) >>))

RtDecls == {AccountDecl, ProfileDecl, ResultDecl}

\* a Go value: its dynamic type and its content; the nil interface value has neither
NilValue == [dyn |-> "nil", val |-> "nil"]
Value(dyn, val) == [dyn |-> dyn, val |-> val]

\* the predeclared interface types
InterfaceTypes == {"error", "any"}

\* the values of a static type
ValuesOf(t) ==
    CASE t = JId("int") -> {Value("int", "1"), Value("int", "2")}
      [] t = JId("string") -> {Value("string", "a"), Value("string", "b")}
      [] t = JId("error") -> {NilValue, Value("*errors.errorString", "boom")}
      [] OTHER -> {}

Implements(dyn, iface) == iface = "any" \/ (iface = "error" /\ dyn = "*errors.errorString")

\* v.(t): the type assertion on a value of type any
TypeAssert(v, t) ==
    IF v.dyn = "nil" THEN [panic |-> TRUE, value |-> NilValue]
    ELSE IF t.name \in InterfaceTypes
         THEN IF Implements(v.dyn, t.name) THEN [panic |-> FALSE, value |-> v]
              ELSE [panic |-> TRUE, value |-> NilValue]
         ELSE IF v.dyn = t.name THEN [panic |-> FALSE, value |-> v]
              ELSE [panic |-> TRUE, value |-> NilValue]

\* the functions of the file the generator builds for one declaration
FuncsOf(decl, structTag) ==
    SelectSeq(inspect(NewGenerator(GeneratorOpts("partial", structTag, "Partial")), decl, <<>>).g.members,
              LAMBDA m : m.m = "Func")

FuncNamed(funcs, name) == funcs[CHOOSE k \in 1..Len(funcs) : funcs[k].name = name]

\* m[key] of a Go map: the zero value of any, nil, if the key is absent
MapIndex(m, key) == IF key \in DOMAIN m THEN m[key] ELSE NilValue

\* the body of a generated mutator: p[key] = v; return p
CallMutator(fn, heap, recv, v) ==
    [heap |-> [heap EXCEPT ![recv] = [k \in (DOMAIN @) \cup {fn.body.key} |->
                                        IF k = fn.body.key THEN v ELSE @[k]]],
     ret |-> recv]

\* the body of a generated accessor: return p[key].(T)
CallAccessor(fn, heap, recv) == TypeAssert(MapIndex(heap[recv], fn.body.key), fn.body.assert)

EmptyMap == [k \in {} |-> NilValue]

RtValues == UNION {ValuesOf(JId(t)) : t \in {"int", "string", "error"}}

RtPrograms ==
    {[made |-> TRUE, decl |-> d, funcs |-> FuncsOf(d, t), f |-> f, h |-> h, x |-> x, y |-> y,
      step |-> 0, p |-> 1, q |-> 1, heap |-> <<EmptyMap>>, heap1 |-> <<EmptyMap>>,
      ret1 |-> 0, ret2 |-> 0, readF |-> [panic |-> FALSE, value |-> NilValue],
      readH |-> [panic |-> FALSE, value |-> NilValue]] :
        d \in RtDecls, t \in {"", "particle"}, f \in 1..2, h \in 1..2,
        x \in RtValues, y \in RtValues}

\* the programs that compile: f and h are two fields, x and y are of their types
InitRt ==
    /\ rt \in {r \in RtPrograms :
                  /\ r.f # r.h
                  /\ r.x \in ValuesOf(determineType(r.decl.typ.fields[r.f].typ, <<>>))
                  /\ r.y \in ValuesOf(determineType(r.decl.typ.fields[r.h].typ, <<>>))}

FieldName(r, k) == r.decl.typ.fields[k].names[1]

\* p.With<f>(x)
RtWithF ==
    /\ rt.made /\ rt.step = 0
    /\ LET c == CallMutator(FuncNamed(rt.funcs, "With" \o FieldName(rt, rt.f)), rt.heap, rt.p, rt.x)
       IN  rt' = [rt EXCEPT !.heap = c.heap, !.heap1 = c.heap, !.ret1 = c.ret, !.step = 1]
    /\ UNCHANGED <<driverVars, call>>

\* (the instance returned).With<h>(y)
RtWithH ==
    /\ rt.made /\ rt.step = 1
    /\ LET c == CallMutator(FuncNamed(rt.funcs, "With" \o FieldName(rt, rt.h)), rt.heap, rt.ret1, rt.y)
       IN  rt' = [rt EXCEPT !.heap = c.heap, !.ret2 = c.ret, !.step = 2]
    /\ UNCHANGED <<driverVars, call>>

\* q.<f>() and q.<h>()
RtRead ==
    /\ rt.made /\ rt.step = 2
    /\ rt' = [rt EXCEPT !.readF = CallAccessor(FuncNamed(rt.funcs, FieldName(rt, rt.f)), rt.heap, rt.q),
                        !.readH = CallAccessor(FuncNamed(rt.funcs, FieldName(rt, rt.h)), rt.heap, rt.q),
                        !.step = 3]
    /\ UNCHANGED <<driverVars, call>>

-----------------------------------------------------------------------------
(* The specifications. *)

\* the driver at rest, for the specifications that do not run it
DriverIdle ==
    /\ cfg = [dryRun |-> TRUE, globs |-> <<>>, dir |-> ".", out |-> "partial",
              structTag |-> "particle", typePrefix |-> "", pkg |-> "partial"]
    /\ paths = <<>> /\ idx = 0 /\ pc = "done" /\ status = "ok" /\ g = NoGen /\ todo = <<>>
    /\ code = NoCode /\ stdout = <<>> /\ fs = [p \in DstPaths("partial") |-> Absent]
    /\ wrote = <<>>

\* a run of the command
Init == InitDriver /\ call = NoCall /\ rt = NoRt

Next ==
    \/ Pre
    \/ Glob
    \/ Return
    \/ GenerateBegin
    \/ Visit
    \/ GenerateEnd
    \/ DryRun
    \/ WriteInto

Spec == Init /\ [][Next]_vars

\* one call of a helper of the generator
InitFn ==
    /\ DriverIdle
    /\ rt = NoRt
    /\ call \in FieldNamesCalls \cup QualifyCalls \cup DetermineTypeCalls

NextFn ==
    \/ CallFieldNames
    \/ CallQualify
    \/ CallDetermineType

SpecFn == InitFn /\ [][NextFn]_vars

\* one run of a program that uses the generated code
InitGenerated == DriverIdle /\ call = NoCall /\ InitRt

NextGenerated ==
    \/ RtWithF
    \/ RtWithH
    \/ RtRead

SpecGenerated == InitGenerated /\ [][NextGenerated]_vars

-----------------------------------------------------------------------------
(* The claims about a run of the command. *)

IsRecord(node) == node.kind = "TypeSpec" /\ node.typ.kind = "StructType"

\* the struct declarations of a file, wherever they stand, in source order
Records(file) == SelectSeq(InspectOrder(file.decls), IsRecord)

\* the struct declarations at the top level of a file, in source order
TopRecords(file) == SelectSeq(file.decls, IsRecord)

\* the type definitions and functions of a generated file, comments and blank lines left out
Core(members) == SelectSeq(members, LAMBDA m : m.m \in {"Type", "Func"})

TypeNames(members) ==
    LET types == SelectSeq(members, LAMBDA m : m.m = "Type")
    IN  [k \in 1..Len(types) |-> types[k].name]

\* core is, record by record: the type definition, then for each entry of the
\* field list its accessor followed by its mutator, both on the same key and type
RECURSIVE BlocksOK(_, _, _)
BlocksOK(core, records, prefix) ==
    IF Len(records) = 0 THEN Len(core) = 0
    ELSE LET r == Head(records)
             n == Len(r.typ.fields)
             name == prefix \o r.name
         IN  /\ Len(core) >= 1 + 2 * n
             /\ core[1].m = "Type" /\ core[1].name = name
             /\ \A k \in 1..n :
                   LET acc == core[2 * k]
                       mut == core[2 * k + 1]
                       fname == r.typ.fields[k].names[1]
                   IN  /\ acc.m = "Func" /\ mut.m = "Func"
                       /\ acc.recv = name /\ mut.recv = name
                       /\ acc.name = fname /\ mut.name = "With" \o fname
                       /\ acc.body.op = "ReturnIndexAssert" /\ mut.body.op = "AssignIndexReturn"
                       /\ acc.params = <<>> /\ Len(acc.results) = 1
                       /\ acc.body.assert = acc.results[1]
                       /\ mut.params = acc.results
                       /\ mut.results = <<JId(name)>>
                       /\ mut.body.key = acc.body.key
             /\ BlocksOK(SubSeq(core, 2 * n + 2, Len(core)), Tail(records), prefix)

\* C1: the file File has built holds, for every struct declaration of the source
\* file with N entries in its field list, one type definition named
\* typePrefix + name followed by N accessor/mutator pairs in field order, the
\* accessor of a field right before its mutator, both with the same key and type.
C1_OneTypeAndNPairs ==
    pc = "emit" =>
        BlocksOK(Core(code.text.members), Records(SourceOf(paths[idx])), cfg.typePrefix)

C1_Witness ==
    /\ pc = "emit" /\ paths[idx] = "a/user.go"
    /\ cfg.structTag = "particle" /\ cfg.typePrefix = "Partial"
    /\ \E k \in 1..Len(code.text.members) :
          /\ code.text.members[k].m = "Func"
          /\ code.text.members[k].name = "WithName"
          /\ code.text.members[k].body.key = "name"

\* C5: a node that is not a struct type declaration (a type declaration of another
\* type, a function or a variable declaration) adds nothing to the generated file
\* and raises no error, and the walk goes on with the node after it.
C5_NonRecordsIgnored ==
    [][(pc = "inspect" /\ Len(todo) > 0 /\ ~IsRecord(Head(todo))) =>
          /\ g' = g /\ status' = "running" /\ pc' = "inspect" /\ todo' = Tail(todo)
          /\ stdout' = stdout /\ fs' = fs]_vars

C5_Witness ==
    /\ pc = "inspect" /\ paths[idx] = "a/user.go" /\ Len(todo) = 1
    /\ TypeNames(g.members) = <<cfg.typePrefix \o "User">>
    /\ status = "running"

\* a file the specification says must fail: a struct declaration of it has a field
\* without a name, of an unsupported type, or of a qualified type no import resolves
FatalField(field, imports) ==
    \/ Len(field.names) = 0
    \/ ~Supported(field.typ)
    \/ ~Resolvable(field.typ, imports)

FatalFile(file) ==
    \E k \in 1..Len(Records(file)) :
        \E n \in 1..Len(Records(file)[k].typ.fields) :
            FatalField(Records(file)[k].typ.fields[n], file.imports)

\* the paths whose code was printed, in order
PrintedPaths ==
    LET lines == SelectSeq(stdout, LAMBDA l : l.line = "// Source:")
    IN  [k \in 1..Len(lines) |-> lines[k].path]

WrittenPaths == [k \in 1..Len(wrote) |-> wrote[k].src]

Occurs(seq, x) == \E k \in 1..Len(seq) : seq[k] = x

\* C6: generation of a file is all or nothing: if a field of a struct of the file
\* has no name, an unsupported type or an unresolvable qualified type, generate
\* returns no text for the file, and nothing is printed or written for it.
C6_AllOrNothing ==
    \A j \in 1..Len(paths) :
        FatalFile(SourceOf(paths[j])) =>
            /\ idx <= j
            /\ ~(idx = j /\ pc = "emit")
            /\ ~Occurs(PrintedPaths, paths[j])
            /\ ~Occurs(WrittenPaths, paths[j])

\* a file that cannot be generated whatever the resolution of its imports
MustFail(file) ==
    \/ ~file.parses
    \/ \E k \in 1..Len(Records(file)) :
          \E n \in 1..Len(Records(file)[k].typ.fields) :
              LET field == Records(file)[k].typ.fields[n]
              IN  Len(field.names) = 0 \/ ~Supported(field.typ)

\* seq is a subsequence of the first n elements of whole, in their order
RECURSIVE SubsequenceOf(_, _, _)
SubsequenceOf(seq, whole, n) ==
    IF Len(seq) = 0 THEN TRUE
    ELSE IF n = 0 THEN FALSE
    ELSE IF seq[Len(seq)] = whole[n]
         THEN SubsequenceOf(SubSeq(seq, 1, Len(seq) - 1), whole, n - 1)
         ELSE SubsequenceOf(seq, whole, n - 1)

\* the files the loop of run has finished
Finished == IF idx = 0 THEN 0 ELSE idx - 1

\* the generated text holds what its own source file declares, and nothing else
FreshFor(text, path) ==
    /\ \A k \in 1..Len(TypeNames(text.members)) :
          \E r \in 1..Len(Records(SourceOf(path))) :
              TypeNames(text.members)[k] = cfg.typePrefix \o Records(SourceOf(path))[r].name
    /\ Len(text.names) = Len(SourceOf(path).imports)

\* the last successful write, if any, to the path of the k-th one
LastWrite(k) == \A later \in (k + 1)..Len(wrote) : wrote[later].dst # wrote[k].dst

\* C8: the files are processed one after the other in glob order, each with a
\* generator of its own; the first failure ends the run with a failure, and
\* nothing is printed or written for the failing file or any later one; the
\* output of each earlier file is complete.
C8_SequentialAbortOnFirstFailure ==
    /\ status \in {"error", "panic"} => pc = "done"
    /\ (pc = "done" /\ status = "ok") => idx = Len(paths) + 1
    /\ \A j \in 1..Len(paths) : MustFail(SourceOf(paths[j])) => (idx <= j /\ status # "ok")
    /\ cfg.dryRun =>
          /\ wrote = <<>>
          /\ PrintedPaths = SubSeq(paths, 1, Finished)
          /\ \A k \in 1..Len(stdout) :
                stdout[k].line = "// Source:" =>
                    /\ k < Len(stdout) /\ stdout[k + 1].line = "code"
                    /\ FreshFor(stdout[k + 1].text, stdout[k].path)
    /\ ~cfg.dryRun =>
          /\ stdout = <<>>
          /\ SubsequenceOf(WrittenPaths, paths, Finished)
          /\ ~HasSuffix(cfg.out, ".go") => WrittenPaths = SubSeq(paths, 1, Finished)
          /\ \A k \in 1..Len(wrote) :
                LastWrite(k) =>
                    /\ fs[wrote[k].dst].exists /\ ~fs[wrote[k].dst].old
                    /\ FreshFor(fs[wrote[k].dst].text, wrote[k].src)

C8_Witness ==
    /\ pc = "done" /\ status = "error" /\ Len(paths) = 2 /\ idx = 2
    /\ cfg.dryRun /\ PrintedPaths = <<paths[1]>>
    /\ ~SourceOf(paths[2]).parses

\* C9: the walk yields the top-level declarations only: the type definitions of
\* the generated file are those of the top-level struct declarations of the
\* source file, in the order of their declaration.
C9_TopLevelOnly ==
    pc = "emit" =>
        TypeNames(code.text.members) =
            [k \in 1..Len(TopRecords(SourceOf(paths[idx]))) |->
                cfg.typePrefix \o TopRecords(SourceOf(paths[idx]))[k].name]

\* C10: writeInto never overwrites a single-file output: with an output path that
\* ends in ".go" and exists, it changes nothing and reports success, so that the
\* path is written at most once in a run and then holds the code of the first
\* file; with any other output path every file is written to
\* <out>/<base name of the source path>, whatever is there.
C10_WriteIntoFrame ==
    [][/\ (pc = "emit" /\ ~cfg.dryRun /\ HasSuffix(cfg.out, ".go")) =>
             /\ fs[cfg.out].exists => (fs' = fs /\ wrote' = wrote /\ status' = "running"
                                        /\ pc' = "loop" /\ idx' = idx + 1)
             /\ fs' # fs => /\ idx = 1
                            /\ fs' = [fs EXCEPT ![cfg.out] = Written(code.text)]
             /\ Len(wrote') <= 1
       /\ (pc = "emit" /\ ~cfg.dryRun /\ ~HasSuffix(cfg.out, ".go") /\ status' = "running") =>
             fs' = [fs EXCEPT ![Join(cfg.out, Base(paths[idx]))] = Written(code.text)]
       /\ ~(pc = "emit" /\ ~cfg.dryRun) => fs' = fs]_vars

C10_Witness ==
    /\ pc = "done" /\ status = "ok" /\ Len(paths) = 2 /\ ~cfg.dryRun
    /\ cfg.out = "partial.go" /\ Len(wrote) = 1 /\ wrote[1].src = paths[1]
    /\ paths = <<"a/user.go", "b/user.go">>
    /\ TypeNames(fs[cfg.out].text.members) = <<cfg.typePrefix \o "User", cfg.typePrefix \o "Empty">>

-----------------------------------------------------------------------------
(* The claim about the generated code. *)

\* C7: p.With<f>(x).With<h>(y) on one instance returns that instance, after which
\* the accessors of f and h return x and y through every reference to it, and
\* each mutator changes the entry at the key of its own field only.
C7_MutatorChain ==
    (rt.made /\ rt.step = 3) =>
        LET keyF == FuncNamed(rt.funcs, "With" \o FieldName(rt, rt.f)).body.key
            keyH == FuncNamed(rt.funcs, "With" \o FieldName(rt, rt.h)).body.key
        IN  /\ rt.ret1 = rt.p /\ rt.ret2 = rt.p /\ rt.q = rt.p
            /\ rt.readF = [panic |-> FALSE, value |-> rt.x]
            /\ rt.readH = [panic |-> FALSE, value |-> rt.y]
            /\ DOMAIN rt.heap1[rt.p] = {keyF}
            /\ \A k \in DOMAIN rt.heap1[rt.p] \ {keyH} : rt.heap[rt.p][k] = rt.heap1[rt.p][k]

=============================================================================
